---- MODULE Spec2Model ----
(***************************************************************************)
(* TechGap curriculum gap analyzer: the relational store read by the gap   *)
(* analysis router (backend/routers/gap_analysis.py), the CRUD handlers    *)
(* that fill it, the analyze operation (_calculate_gap_analysis),          *)
(* get_options with its cache and the summary table it reads first, and    *)
(* generate_recommendation with its cache and its chain of providers.      *)
(*                                                                         *)
(* Spec and SpecScenario exercise analyze on one pair, SpecPairs on four   *)
(* pairs, SpecOptions get_options over changing entities and judgments,    *)
(* SpecCaches the two caches next to analyze, SpecNormalize                *)
(* normalize_string on short texts.  SpecOptionsThreads runs get_options,  *)
(* the warm-up thread of preload_caches (backend/app/main.py) and          *)
(* invalidate_options_cache one load or store of _OPTIONS_CACHE at a time, *)
(* SpecRecommendationThreads does the same for generate_recommendation     *)
(* and clear_recommendation_cache.                                         *)
(*                                                                         *)
(* Strings are sequences of one-character strings, so that lower-casing,   *)
(* the [^a-z0-9] filter of normalize_string and Python's code-point order  *)
(* of sorted() are computed rather than assumed.                           *)
(*                                                                         *)
(* Percentages: round(x * 100, 1) and f"{x * 100:.1f}" are modelled by the *)
(* integer number of tenths of a percent (667 stands for 66.7).            *)
(***************************************************************************)
EXTENDS Integers, Sequences, FiniteSets, TLC

(***************************************************************************)
(* Bounds of the model.                                                    *)
(***************************************************************************)
\* ids a request may name for a curriculum or a job (the store holds id 1)
MaxEntityId == 2
\* rows of skill_match_detail (distinct on the columns analyze reads)
MaxDetails == 2
\* rows of skill_match_detail in the scenario stores
ScenarioDetails == 3
\* rows of course_skill created through create_course_skill
MaxLinks == 3
\* rows of job_skill created through create_job_skill
MaxJobSkills == 1

EntityIds == 1..MaxEntityId

\* the three values of skill_match_status_enum
StatusType == {"match", "partial", "gap"}

(***************************************************************************)
(* Characters and strings.                                                 *)
(***************************************************************************)
Upper == <<"A","B","C","D","E","F","G","H","I","J","K","L","M",
           "N","O","P","Q","R","S","T","U","V","W","X","Y","Z">>
Lower == <<"a","b","c","d","e","f","g","h","i","j","k","l","m",
           "n","o","p","q","r","s","t","u","v","w","x","y","z">>
Digit == <<"0","1","2","3","4","5","6","7","8","9">>
\* punctuation used by the names of the model, with its ASCII code
Punct == [c \in {" ", "!", "+", "-"} |->
            CASE c = " " -> 32 [] c = "!" -> 33 [] c = "+" -> 43 [] c = "-" -> 45]

IndexOf(seq, c) == CHOOSE i \in 1..Len(seq) : seq[i] = c
InSeq(seq, c) == \E i \in 1..Len(seq) : seq[i] = c

\* ord(c)
CodePoint(c) ==
    IF InSeq(Upper, c) THEN 64 + IndexOf(Upper, c)
    ELSE IF InSeq(Lower, c) THEN 96 + IndexOf(Lower, c)
    ELSE IF InSeq(Digit, c) THEN 47 + IndexOf(Digit, c)
    ELSE Punct[c]

\* str.lower() on one character
LowerChar(c) == IF InSeq(Upper, c) THEN Lower[IndexOf(Upper, c)] ELSE c

\* text.lower()
ToLower(text) == [i \in 1..Len(text) |-> LowerChar(text[i])]

\* the complement of the character class [^a-z0-9]
IsAlnumLower(c) == InSeq(Lower, c) \/ InSeq(Digit, c)

\* the complement of the character class [^a-zA-Z0-9]
IsAlnum(c) == InSeq(Upper, c) \/ InSeq(Lower, c) \/ InSeq(Digit, c)

\* variant: the class keeps both cases and the text is not lowercased
normalize_string_any_case(text) ==
    IF text = <<>> THEN <<>>
    ELSE SelectSeq(text, IsAlnum)

\* gap_analysis.normalize_string
normalize_string(text) ==
    IF text = <<>> THEN <<>>
    ELSE SelectSeq(ToLower(text), IsAlnumLower)

\* Python's str.__lt__: lexicographic on code points
StrLess(a, b) ==
    \/ Len(a) < Len(b) /\ \A i \in 1..Len(a) : a[i] = b[i]
    \/ \E k \in 1..Len(a) :
          /\ k <= Len(b)
          /\ \A i \in 1..(k - 1) : a[i] = b[i]
          /\ CodePoint(a[k]) < CodePoint(b[k])

RECURSIVE sorted(_)
\* sorted(list(set(xs))) for a set of strings
sorted(S) ==
    IF S = {} THEN <<>>
    ELSE LET m == CHOOSE x \in S : \A y \in S \ {x} : StrLess(x, y)
         IN  <<m>> \o sorted(S \ {m})

\* the set of the entries of a list
Range(seq) == {seq[i] : i \in 1..Len(seq)}

(***************************************************************************)
(* The store (app/models.py) and the last response of the service.         *)
(***************************************************************************)
VARIABLES
    curriculum,          \* table curriculum: curriculum_id -> row
    job_role,            \* table job_role: job_id -> row
    skill,               \* table skill: skill_id -> skill_name
    course_skill,        \* table course_skill: set of <<curriculum_id, skill_id>>
    job_skill,           \* table job_skill: set of <<job_id, skill_id>>
    skill_match_detail,  \* table skill_match_detail: set of rows
    options_summary,     \* table options_summary, which may not exist
    options_cache,       \* gap_analysis._OPTIONS_CACHE
    recommendation_cache, \* gap_analysis._RECOMMENDATION_CACHE: key -> text
    env,                 \* which API keys the process environment holds
    threads,             \* the calls in progress: thread -> position and locals
    request,             \* the last request: operation, and the ids analyze was given
    response,            \* what the last request returned or raised
    queries              \* tables the last request read or wrote and
                         \* providers it called, in order

vars == <<curriculum, job_role, skill, course_skill, job_skill,
          skill_match_detail, options_summary, options_cache,
          recommendation_cache, env, threads, request, response, queries>>

\* the summary table, the module's two caches and the environment
service == <<options_summary, options_cache, recommendation_cache, env>>

store == <<curriculum, job_role, skill, course_skill, job_skill,
           skill_match_detail>>

\* Skill.skill_name of the catalogue: two names that collide after
\* normalize_string, one that normalizes to the empty string
Python == <<"P","y","t","h","o","n">>
PythonBang == <<"p","y","t","h","o","n","!","!">>
SQL == <<"S","Q","L">>
Docker == <<"D","o","c","k","e","r">>
PlusPlus == <<"+","+">>

NamedSkills == <<Python, SQL, Docker, PythonBang, PlusPlus>>

\* names of the further skills of the catalogue: "s6", "s7", ...
FillerName(id) ==
    IF id < 10 THEN <<"s", Digit[id + 1]>>
    ELSE <<"s", Digit[(id \div 10) + 1], Digit[(id % 10) + 1]>>

\* the skill table: the named skills, then "s6" .. "s10"
SkillCatalogue ==
    [id \in 1..(2 * Len(NamedSkills)) |->
        IF id <= Len(NamedSkills) THEN NamedSkills[id] ELSE FillerName(id)]

\* skills a judgment may name
JudgedSkillIds == 1..Len(NamedSkills)

\* a skill id that is in no row of the skill table
UnknownSkillId == Len(SkillCatalogue) + 1

NoBody == [none |-> TRUE]

\* options_summary does not exist
NoSummary == [exists |-> FALSE, rows |-> {}]

\* _OPTIONS_CACHE = None
NoOptions == [populated |-> FALSE,
              value |-> [curricula |-> <<>>, jobs |-> <<>>]]

\* _RECOMMENDATION_CACHE = {}
EmptyCache == [k \in {} |-> ""]

\* GOOGLE_API_KEY and GROQ_API_KEY both set
BothKeys == [GOOGLE_API_KEY |-> TRUE, GROQ_API_KEY |-> TRUE]

\* no call in progress
NoThreads == [t \in {} |-> [pc |-> "done"]]

\* the module state after import: no summary table, both caches empty
ServiceInit ==
    /\ options_summary = NoSummary
    /\ options_cache = NoOptions
    /\ recommendation_cache = EmptyCache
    /\ env = BothKeys
    /\ threads = NoThreads

\* HTTPException(status_code, detail)
HTTPException(status_code, detail) ==
    [status |-> status_code, detail |-> detail, body |-> NoBody]

\* a 200 response with its JSON body
Ok(body) == [status |-> 200, detail |-> "", body |-> body]

\* the store after the import: one curriculum, one job, the skill catalogue
Init ==
    /\ curriculum = [id \in {1} |-> [track |-> <<"O","t","h","e","r">>,
                                      course_title |-> <<"C","S","1">>]]
    /\ job_role = [id \in {1} |-> [title |-> <<"D","e","v">>, query |-> <<>>]]
    /\ skill = SkillCatalogue
    /\ course_skill = {}
    /\ job_skill = {}
    /\ skill_match_detail = {}
    /\ ServiceInit
    /\ request = [op |-> "startup", args |-> <<>>]
    /\ response = Ok(NoBody)
    /\ queries = <<>>

(***************************************************************************)
(* _calculate_gap_analysis (routers/gap_analysis.py).                      *)
(***************************************************************************)
\* round-half-even of n / d, the rounding of round(x, 1) and of "%.1f"
\* (a tie needs a denominator that is a multiple of 16)
RoundHalfEven(n, d) ==
    LET q == n \div d
        r == n % d
    IN  IF 2 * r < d THEN q
        ELSE IF 2 * r > d THEN q + 1
        ELSE IF q % 2 = 0 THEN q ELSE q + 1

\* round((num / den) * 100, 1), in tenths of a percent
Tenths(num, den) == RoundHalfEven(1000 * num, den)

\* f"{x * 100:.1f}%" of a value given in tenths of a percent
PercentString(tenths) ==
    ToString(tenths \div 10) \o "." \o ToString(tenths % 10) \o "%"

\* db.query(func.count(CourseSkill.skill_id)).filter(...).scalar() or 0
CountCourseSkills(curriculum_id) ==
    Cardinality({l \in course_skill : l[1] = curriculum_id})

\* variant: the filter on job_id is left out
DbDetailsAnyJob(curriculum_id, job_id) ==
    {<<row, skill[row.skill_id]>> :
        row \in {r \in skill_match_detail :
                    /\ r.skill_id \in DOMAIN skill
                    /\ r.curriculum_id = curriculum_id}}

\* variant: rows for skills outside the job's job_skill links are left out
\* when the job has links
DbDetailsRequired(curriculum_id, job_id) ==
    LET required == {l[2] : l \in {x \in job_skill : x[1] = job_id}}
    IN  {<<row, skill[row.skill_id]>> :
            row \in {r \in skill_match_detail :
                        /\ r.skill_id \in DOMAIN skill
                        /\ r.curriculum_id = curriculum_id
                        /\ r.job_id = job_id
                        /\ (required = {} \/ r.skill_id \in required
                              \/ r.status = "match")}}

\* db.query(SkillMatchDetail, Skill.skill_name).join(Skill, ...).filter(...)
\* as a set of <<row, skill_name>>
DbDetails(curriculum_id, job_id) ==
    {<<row, skill[row.skill_id]>> :
        row \in {r \in skill_match_detail :
                    /\ r.skill_id \in DOMAIN skill
                    /\ r.curriculum_id = curriculum_id
                    /\ r.job_id = job_id}}

\* variant: 'partial' counted with 'match'
IsMatchOrPartial(row) == row.status \in {"match", "partial"}

\* step 4: the test that sends a row's skill name to the matches list
IsMatch(row) == row.status = "match"

\* step 4: the list matches after the loop, as name -> number of occurrences
MatchesList(db_details) ==
    LET rows == {d \in db_details : IsMatch(d[1])}
    IN  [n \in {d[2] : d \in rows} |-> Cardinality({d \in rows : d[2] = n})]

\* step 4: the list gaps after the loop (the else branch)
GapsList(db_details) ==
    LET rows == {d \in db_details : ~IsMatch(d[1])}
    IN  [n \in {d[2] : d \in rows} |-> Cardinality({d \in rows : d[2] = n})]

\* step 4 on the rows in the order the query returned them: the list
\* matches, one name appended for each row with status 'match'
AppendedMatches(db_details) ==
    LET rows == SelectSeq(db_details, LAMBDA d : IsMatch(d[1]))
    IN  [i \in 1..Len(rows) |-> rows[i][2]]

\* variant: of the names with one normalized key only the first is kept
OnePerKey(list) ==
    {n \in DOMAIN list :
        \A m \in DOMAIN list :
            normalize_string(m) = normalize_string(n) => ~StrLess(m, n)}

\* variant: names keyed by normalize_string, empty keys dropped
NormalizedNames(list) == {normalize_string(n) : n \in DOMAIN list} \ {<<>>}

\* set(matches), set(gaps): the distinct raw names of a list
UniqueNames(list) == DOMAIN list

\* variant: no fallback when the curriculum has no links
TotalCurriculumSkillsNoFallback(count, match_count) == count

\* step 5: the denominator of relevance ("Avoid division by zero")
TotalCurriculumSkills(count, match_count) ==
    IF count = 0
    THEN (IF match_count > 0 THEN match_count ELSE 1)
    ELSE count

\* max(0, total_curriculum_skills - match_count)
IrrelevantCount(total_curriculum_skills, match_count) ==
    IF total_curriculum_skills - match_count > 0
    THEN total_curriculum_skills - match_count
    ELSE 0

\* variant: the share of gaps instead of the share of matches
CoverageGapShare(match_count, total_job_needs) ==
    IF total_job_needs > 0
    THEN <<total_job_needs - match_count, total_job_needs>> ELSE <<0, 1>>

\* variant: nothing needed counts as fully covered
CoverageEmptyIsFull(match_count, total_job_needs) ==
    IF total_job_needs > 0 THEN <<match_count, total_job_needs>> ELSE <<1, 1>>

\* coverage, as the fraction <<numerator, denominator>>
Coverage(match_count, total_job_needs) ==
    IF total_job_needs > 0 THEN <<match_count, total_job_needs>> ELSE <<0, 1>>

\* variant: relevance without the clamp
RelevanceUnclamped(match_count, total_curriculum_skills) ==
    IF total_curriculum_skills > 0
    THEN <<match_count, total_curriculum_skills>> ELSE <<0, 1>>

\* relevance with its clamp to 1.0, as a fraction
Relevance(match_count, total_curriculum_skills) ==
    LET r == IF total_curriculum_skills > 0
             THEN <<match_count, total_curriculum_skills>> ELSE <<0, 1>>
    IN  IF r[1] > r[2] THEN <<1, 1>> ELSE r

\* steps 4 and 5 of _calculate_gap_analysis: the returned dictionary
GapAnalysisResult(db_details, count) ==
    LET matches == sorted(UniqueNames(MatchesList(db_details)))
        gaps == sorted(UniqueNames(GapsList(db_details)))
        match_count == Len(matches)
        gap_count == Len(gaps)
        total_job_needs == match_count + gap_count
        total_curriculum_skills == TotalCurriculumSkills(count, match_count)
        irrelevant_count == IrrelevantCount(total_curriculum_skills, match_count)
        coverage == Coverage(match_count, total_job_needs)
        relevance == Relevance(match_count, total_curriculum_skills)
    IN  [coverage |-> PercentString(Tenths(coverage[1], coverage[2])),
         relevance |-> PercentString(Tenths(relevance[1], relevance[2])),
         coverage_score |-> Tenths(coverage[1], coverage[2]),
         relevance_score |-> Tenths(relevance[1], relevance[2]),
         matchingSkills |-> match_count,
         missingSkills |-> gap_count,
         totalCurriculumSkills |-> total_curriculum_skills,
         irrelevantSkills |-> irrelevant_count,
         exact |-> matches,
         gaps |-> gaps]

\* variant: the job is looked up before the curriculum
analyze_job_first(curriculum_id, job_id) ==
    /\ request' = [op |-> "analyze", args |-> <<curriculum_id, job_id>>]
    /\ UNCHANGED threads
    /\ UNCHANGED service
    /\ IF job_id \notin DOMAIN job_role
       THEN /\ response' = HTTPException(404,
                   "Job role " \o ToString(job_id) \o " not found")
            /\ queries' = <<"job_role">>
       ELSE IF curriculum_id \notin DOMAIN curriculum
       THEN /\ response' = HTTPException(404,
                   "Curriculum " \o ToString(curriculum_id) \o " not found")
            /\ queries' = <<"job_role", "curriculum">>
       ELSE /\ response' = Ok(GapAnalysisResult(
                                 DbDetails(curriculum_id, job_id),
                                 CountCourseSkills(curriculum_id)))
            /\ queries' = <<"job_role", "curriculum", "course_skill",
                            "skill_match_detail">>
    /\ UNCHANGED store

\* variant: analyze resets the options cache
analyze_invalidating(curriculum_id, job_id) ==
    /\ request' = [op |-> "analyze", args |-> <<curriculum_id, job_id>>]
    /\ UNCHANGED threads
    /\ options_cache' = NoOptions
    /\ UNCHANGED <<options_summary, recommendation_cache, env>>
    /\ IF curriculum_id \notin DOMAIN curriculum
       THEN /\ response' = HTTPException(404,
                   "Curriculum " \o ToString(curriculum_id) \o " not found")
            /\ queries' = <<"curriculum">>
       ELSE IF job_id \notin DOMAIN job_role
       THEN /\ response' = HTTPException(404,
                   "Job role " \o ToString(job_id) \o " not found")
            /\ queries' = <<"curriculum", "job_role">>
       ELSE /\ response' = Ok(GapAnalysisResult(
                                 DbDetails(curriculum_id, job_id),
                                 CountCourseSkills(curriculum_id)))
            /\ queries' = <<"curriculum", "job_role", "course_skill",
                            "skill_match_detail">>
    /\ UNCHANGED store

\* POST /api/analyze: analyze -> _calculate_gap_analysis
analyze(curriculum_id, job_id) ==
    /\ request' = [op |-> "analyze", args |-> <<curriculum_id, job_id>>]
    /\ UNCHANGED threads
    /\ UNCHANGED service
    /\ IF curriculum_id \notin DOMAIN curriculum
       THEN /\ response' = HTTPException(404,
                   "Curriculum " \o ToString(curriculum_id) \o " not found")
            /\ queries' = <<"curriculum">>
       ELSE IF job_id \notin DOMAIN job_role
       THEN /\ response' = HTTPException(404,
                   "Job role " \o ToString(job_id) \o " not found")
            /\ queries' = <<"curriculum", "job_role">>
       ELSE /\ response' = Ok(GapAnalysisResult(
                                 DbDetails(curriculum_id, job_id),
                                 CountCourseSkills(curriculum_id)))
            /\ queries' = <<"curriculum", "job_role", "course_skill",
                            "skill_match_detail">>
    /\ UNCHANGED store

(***************************************************************************)
(* The CRUD handlers that fill the tables analyze reads.                   *)
(***************************************************************************)
\* POST /course-skills/ (routers/course_skill.py)
create_course_skill(curriculum_id, skill_id) ==
    /\ request' = [op |-> "create_course_skill", args |-> <<>>]
    /\ UNCHANGED threads
    /\ UNCHANGED service
    /\ IF curriculum_id \notin DOMAIN curriculum
       THEN /\ response' = HTTPException(404, "Curriculum not found")
            /\ queries' = <<"curriculum">>
            /\ UNCHANGED course_skill
       ELSE IF skill_id \notin DOMAIN skill
       THEN /\ response' = HTTPException(404, "Skill not found")
            /\ queries' = <<"curriculum", "skill">>
            /\ UNCHANGED course_skill
       ELSE IF <<curriculum_id, skill_id>> \in course_skill
       THEN /\ response' = HTTPException(400, "CourseSkill already exists")
            /\ queries' = <<"curriculum", "skill", "course_skill">>
            /\ UNCHANGED course_skill
       ELSE /\ course_skill' = course_skill \cup {<<curriculum_id, skill_id>>}
            /\ response' = Ok(NoBody)
            /\ queries' = <<"curriculum", "skill", "course_skill", "course_skill">>
    /\ UNCHANGED <<curriculum, job_role, skill, job_skill, skill_match_detail>>

\* POST /job-skill/ (routers/job_skill.py)
create_job_skill(job_id, skill_id) ==
    /\ request' = [op |-> "create_job_skill", args |-> <<>>]
    /\ UNCHANGED threads
    /\ UNCHANGED service
    /\ IF job_id \notin DOMAIN job_role
       THEN /\ response' = HTTPException(404, "JobRole not found")
            /\ queries' = <<"job_role">>
            /\ UNCHANGED job_skill
       ELSE IF skill_id \notin DOMAIN skill
       THEN /\ response' = HTTPException(404, "Skill not found")
            /\ queries' = <<"job_role", "skill">>
            /\ UNCHANGED job_skill
       ELSE IF <<job_id, skill_id>> \in job_skill
       THEN /\ response' = HTTPException(400, "JobSkill already exists")
            /\ queries' = <<"job_role", "skill", "job_skill">>
            /\ UNCHANGED job_skill
       ELSE /\ job_skill' = job_skill \cup {<<job_id, skill_id>>}
            /\ response' = Ok(NoBody)
            /\ queries' = <<"job_role", "skill", "job_skill", "job_skill">>
    /\ UNCHANGED <<curriculum, job_role, skill, course_skill, skill_match_detail>>

\* POST /skill-match-detail/ (routers/skill_match_detail.py); a row is kept
\* by the columns gap_analysis reads
create_skill_match_detail(curriculum_id, job_id, skill_id, status) ==
    /\ request' = [op |-> "create_skill_match_detail", args |-> <<>>]
    /\ UNCHANGED threads
    /\ UNCHANGED service
    /\ IF curriculum_id \notin DOMAIN curriculum
       THEN /\ response' = HTTPException(404, "Curriculum not found")
            /\ queries' = <<"curriculum">>
            /\ UNCHANGED skill_match_detail
       ELSE IF job_id \notin DOMAIN job_role
       THEN /\ response' = HTTPException(404, "Job Role not found")
            /\ queries' = <<"curriculum", "job_role">>
            /\ UNCHANGED skill_match_detail
       ELSE IF skill_id \notin DOMAIN skill
       THEN /\ response' = HTTPException(404, "Skill not found")
            /\ queries' = <<"curriculum", "job_role", "skill">>
            /\ UNCHANGED skill_match_detail
       ELSE /\ skill_match_detail' = skill_match_detail \cup
                   {[curriculum_id |-> curriculum_id, job_id |-> job_id,
                     skill_id |-> skill_id, status |-> status]}
            /\ response' = Ok(NoBody)
            /\ queries' = <<"curriculum", "job_role", "skill", "skill_match_detail">>
    /\ UNCHANGED <<curriculum, job_role, skill, course_skill, job_skill>>

\* the next skill of the catalogue not yet linked: links are created in
\* catalogue order (analyze reads only their number)
NextLink(links, owner) == Cardinality({l \in links : l[1] = owner}) + 1

AnalyzeRequest == \E c \in EntityIds, j \in EntityIds : analyze(c, j)

CourseSkillRequest ==
    \E c \in EntityIds : \E s \in {1, NextLink(course_skill, c), UnknownSkillId} :
        /\ Cardinality(course_skill) < MaxLinks
        /\ create_course_skill(c, s)

JobSkillRequest ==
    \E j \in EntityIds : \E s \in {1, NextLink(job_skill, j), UnknownSkillId} :
        /\ Cardinality(job_skill) < MaxJobSkills
        /\ create_job_skill(j, s)

DetailRequest(max) ==
    \E c \in EntityIds, j \in EntityIds,
       s \in JudgedSkillIds \cup {UnknownSkillId}, st \in StatusType :
        /\ Cardinality(skill_match_detail) < max
        /\ create_skill_match_detail(c, j, s, st)

SkillMatchDetailRequest == DetailRequest(MaxDetails)

Next ==
    \/ AnalyzeRequest
    \/ CourseSkillRequest
    \/ JobSkillRequest
    \/ SkillMatchDetailRequest

Spec == Init /\ [][Next]_vars

(***************************************************************************)
(* The scenario stores: a curriculum with ten linked skills, two or none,  *)
(* a job that requires Python, SQL and Docker, and up to ScenarioDetails   *)
(* judgments.                                                              *)
(***************************************************************************)
InitScenario ==
    /\ curriculum = [id \in {1} |-> [track |-> <<"O","t","h","e","r">>,
                                      course_title |-> <<"C","S","1">>]]
    /\ job_role = [id \in {1} |-> [title |-> <<"D","e","v">>, query |-> <<>>]]
    /\ skill = SkillCatalogue
    /\ course_skill \in {{<<1, s>> : s \in 1..n} : n \in {0, 2, 10}}
    /\ job_skill = {<<1, s>> : s \in 1..3}
    /\ skill_match_detail = {}
    /\ ServiceInit
    /\ request = [op |-> "startup", args |-> <<>>]
    /\ response = Ok(NoBody)
    /\ queries = <<>>

ScenarioDetailRequest == DetailRequest(ScenarioDetails)

NextScenario ==
    \/ AnalyzeRequest
    \/ ScenarioDetailRequest

SpecScenario == InitScenario /\ [][NextScenario]_vars

(***************************************************************************)
(* The pair stores: two curricula and two jobs, with up to PairDetails     *)
(* judgments spread over the four pairs.                                   *)
(***************************************************************************)
\* rows of skill_match_detail over the four pairs
PairDetails == 2
\* skills those rows may judge
MaxPairSkills == 2

InitPairs ==
    /\ curriculum = [id \in {1, 2} |->
                        [track |-> <<"O","t","h","e","r">>,
                         course_title |-> <<"C","S", ToString(id)>>]]
    /\ job_role = [id \in {1, 2} |->
                      [title |-> <<"D","e","v", ToString(id)>>, query |-> <<>>]]
    /\ skill = SkillCatalogue
    /\ course_skill = {<<1, 1>>, <<2, 1>>, <<2, 2>>}
    /\ job_skill = {}
    /\ skill_match_detail = {}
    /\ ServiceInit
    /\ request = [op |-> "startup", args |-> <<>>]
    /\ response = Ok(NoBody)
    /\ queries = <<>>

PairDetailRequest ==
    \E c \in EntityIds, j \in EntityIds,
       s \in 1..MaxPairSkills, st \in StatusType :
        /\ Cardinality(skill_match_detail) < PairDetails
        /\ create_skill_match_detail(c, j, s, st)

NextPairs ==
    \/ AnalyzeRequest
    \/ PairDetailRequest

SpecPairs == InitPairs /\ [][NextPairs]_vars

(***************************************************************************)
(* get_options and its cache (routers/gap_analysis.py).                    *)
(***************************************************************************)
\* BLACKLIST_JOBS
BLACKLIST_JOBS ==
    {<<"s","t","a","t","i","s","t","i","c","s">>,
     <<"b","u","s","i","n","e","s","s"," ","a","n","a","l","y","s","t">>,
     <<"d","a","t","a"," ","w","a","r","e","h","o","u","s","i","n","g">>,
     <<"t","e","c","h","n","o","l","o","g","y"," ","i","n","t","e","g","r","a","t","i","o","n">>,
     <<"t","e","c","h","n","i","c","a","l"," ","o","p","e","r","a","t","i","o","n","s">>,
     <<"d","a","t","a"," ","a","r","c","h","i","t","e","c","t">>,
     <<"m","a","c","h","i","n","e"," ","l","e","a","r","n","i","n","g">>,
     <<"d","e","e","p"," ","l","e","a","r","n","i","n","g">>,
     <<"b","u","s","i","n","e","s","s"," ","i","n","t","e","l","l","i","g","e","n","c","e"," ","a","n","a","l","y","s","t">>,
     <<"d","a","t","a"," ","q","u","a","l","i","t","y"," ","m","a","n","a","g","e","r">>}

RECURSIVE lstrip(_)
\* str.lstrip(): leading whitespace removed
lstrip(text) ==
    IF text # <<>> /\ Head(text) = " " THEN lstrip(Tail(text)) ELSE text

RECURSIVE rstrip(_)
\* str.rstrip(): trailing whitespace removed
rstrip(text) ==
    IF text # <<>> /\ text[Len(text)] = " "
    THEN rstrip(SubSeq(text, 1, Len(text) - 1)) ELSE text

\* str.strip()
strip(text) == rstrip(lstrip(text))

\* variant: nothing is hidden
IsBlacklistedNever(label) == FALSE

\* label.lower().strip() in BLACKLIST_JOBS
IsBlacklisted(label) == strip(ToLower(label)) \in BLACKLIST_JOBS

\* variant: a label is kept whenever its normalized form is not empty
IsNonEmpty(norm, seen) == norm # <<>>

\* norm and norm not in seen
IsNew(norm, seen) == norm # <<>> /\ norm \notin seen

RECURSIVE curriculum_options(_, _)
\* the loop that fills curriculum_options from rows in id order
curriculum_options(rows, seen_c) ==
    IF rows = <<>> THEN <<>>
    ELSE LET label == Head(rows).label
             norm == normalize_string(label)
         IN  IF IsNew(norm, seen_c)
             THEN <<[id |-> Head(rows).id, label |-> label]>>
                  \o curriculum_options(Tail(rows), seen_c \cup {norm})
             ELSE curriculum_options(Tail(rows), seen_c)

RECURSIVE job_options(_, _)
\* the loop that fills job_options from rows in id order
job_options(rows, seen_j) ==
    IF rows = <<>> THEN <<>>
    ELSE LET label == Head(rows).label
             norm == normalize_string(label)
         IN  IF IsBlacklisted(label)
             THEN job_options(Tail(rows), seen_j)
             ELSE IF IsNew(norm, seen_j)
             THEN <<[id |-> Head(rows).id, label |-> label]>>
                  \o job_options(Tail(rows), seen_j \cup {norm})
             ELSE job_options(Tail(rows), seen_j)

RECURSIVE OrderBy(_, _)
\* ORDER BY id: the rows label[id] for the given ids, by ascending id
OrderBy(ids, label) ==
    IF ids = {} THEN <<>>
    ELSE LET first == CHOOSE i \in ids : \A k \in ids : i <= k
         IN  <<[id |-> first, label |-> label[first]]>>
             \o OrderBy(ids \ {first}, label)

\* SELECT entity_id as id, label FROM options_summary
\* WHERE entity_type = ... ORDER BY entity_id
SummaryRows(entity_type) ==
    LET rows == {r \in options_summary.rows : r.entity_type = entity_type}
    IN  OrderBy({r.entity_id : r \in rows},
                [i \in {r.entity_id : r \in rows} |->
                    (CHOOSE r \in rows : r.entity_id = i).label])

\* c.track or c.course_title or ""
CurriculumLabel(c) == IF c.track # <<>> THEN c.track ELSE c.course_title

\* j.query or j.title or ""
JobLabel(j) == IF j.query # <<>> THEN j.query ELSE j.title

\* variant: every curriculum, judged or not
AllCurricula ==
    OrderBy(DOMAIN curriculum,
            [i \in DOMAIN curriculum |-> CurriculumLabel(curriculum[i])])

\* db.query(Curriculum).join(SkillMatchDetail, ...).distinct()
\*   .order_by(Curriculum.curriculum_id).all()
JoinedCurricula ==
    LET ids == {i \in DOMAIN curriculum :
                   \E r \in skill_match_detail : r.curriculum_id = i}
    IN  OrderBy(ids, [i \in ids |-> CurriculumLabel(curriculum[i])])

\* db.query(JobRole).join(SkillMatchDetail, ...).distinct()
\*   .order_by(JobRole.job_id).all()
JoinedJobs ==
    LET ids == {i \in DOMAIN job_role :
                   \E r \in skill_match_detail : r.job_id = i}
    IN  OrderBy(ids, [i \in ids |-> JobLabel(job_role[i])])

\* an exception that leaves the handler (the framework answers 500)
Unhandled(name) == [status |-> 500, detail |-> name, body |-> NoBody]

\* a populated _OPTIONS_CACHE
Cached(value) == [populated |-> TRUE, value |-> value]

\* variant: the cache is never consulted
get_options_uncached(db_up) ==
    /\ request' = [op |-> "get_options", args |-> <<>>]
    /\ UNCHANGED threads
    /\ IF db_up /\ options_summary.exists
       THEN LET value == [curricula |-> curriculum_options(
                                            SummaryRows("curriculum"), {}),
                          jobs |-> job_options(SummaryRows("job"), {})]
            IN  /\ options_cache' = Cached(value)
                /\ response' = Ok(value)
                /\ queries' = <<"options_summary", "options_summary">>
       ELSE IF db_up
       THEN LET value == [curricula |-> curriculum_options(JoinedCurricula, {}),
                          jobs |-> job_options(JoinedJobs, {})]
            IN  /\ options_cache' = Cached(value)
                /\ response' = Ok(value)
                /\ queries' = <<"options_summary", "curriculum", "job_role">>
       ELSE /\ response' = Unhandled("OperationalError")
            /\ queries' = <<"options_summary", "curriculum">>
            /\ UNCHANGED options_cache
    /\ UNCHANGED <<store, options_summary, recommendation_cache, env>>

\* variant: a failed computation leaves an empty result in the cache
get_options_caching_failure(db_up) ==
    /\ request' = [op |-> "get_options", args |-> <<>>]
    /\ UNCHANGED threads
    /\ IF options_cache.populated
       THEN /\ response' = Ok(options_cache.value)
            /\ queries' = <<>>
            /\ UNCHANGED options_cache
       ELSE IF db_up /\ options_summary.exists
       THEN LET value == [curricula |-> curriculum_options(
                                            SummaryRows("curriculum"), {}),
                          jobs |-> job_options(SummaryRows("job"), {})]
            IN  /\ options_cache' = Cached(value)
                /\ response' = Ok(value)
                /\ queries' = <<"options_summary", "options_summary">>
       ELSE IF db_up
       THEN LET value == [curricula |-> curriculum_options(JoinedCurricula, {}),
                          jobs |-> job_options(JoinedJobs, {})]
            IN  /\ options_cache' = Cached(value)
                /\ response' = Ok(value)
                /\ queries' = <<"options_summary", "curriculum", "job_role">>
       ELSE /\ response' = Unhandled("OperationalError")
            /\ queries' = <<"options_summary", "curriculum">>
            /\ options_cache' = Cached([curricula |-> <<>>, jobs |-> <<>>])
    /\ UNCHANGED <<store, options_summary, recommendation_cache, env>>

\* GET /api/options; db_up is whether the database answers queries: a query
\* on options_summary raises when the table is missing or the database is
\* down, and the live join raises when the database is down
get_options(db_up) ==
    /\ request' = [op |-> "get_options", args |-> <<>>]
    /\ UNCHANGED threads
    /\ IF options_cache.populated
       THEN /\ response' = Ok(options_cache.value)
            /\ queries' = <<>>
            /\ UNCHANGED options_cache
       ELSE IF db_up /\ options_summary.exists
       THEN LET value == [curricula |-> curriculum_options(
                                            SummaryRows("curriculum"), {}),
                          jobs |-> job_options(SummaryRows("job"), {})]
            IN  /\ options_cache' = Cached(value)
                /\ response' = Ok(value)
                /\ queries' = <<"options_summary", "options_summary">>
       ELSE IF db_up
       THEN LET value == [curricula |-> curriculum_options(JoinedCurricula, {}),
                          jobs |-> job_options(JoinedJobs, {})]
            IN  /\ options_cache' = Cached(value)
                /\ response' = Ok(value)
                /\ queries' = <<"options_summary", "curriculum", "job_role">>
       ELSE /\ response' = Unhandled("OperationalError")
            /\ queries' = <<"options_summary", "curriculum">>
            /\ UNCHANGED options_cache
    /\ UNCHANGED <<store, options_summary, recommendation_cache, env>>

\* invalidate_options_cache()
invalidate_options_cache ==
    /\ options_cache' = NoOptions
    /\ request' = [op |-> "invalidate_options_cache", args |-> <<>>]
    /\ UNCHANGED threads
    /\ response' = Ok(NoBody)
    /\ queries' = <<>>
    /\ UNCHANGED <<store, options_summary, recommendation_cache, env>>

(***************************************************************************)
(* The handlers that change what get_options reads.                        *)
(***************************************************************************)
\* the id an autoincrement primary key gives the next row
NextId(table) ==
    IF DOMAIN table = {} THEN 1
    ELSE 1 + (CHOOSE i \in DOMAIN table : \A k \in DOMAIN table : k <= i)

\* table with one more row under key id
Insert(table, id, row) ==
    [i \in DOMAIN table \cup {id} |-> IF i = id THEN row ELSE table[i]]

\* POST /curriculum/ (routers/curriculum.py)
create_curriculum(data) ==
    /\ curriculum' = Insert(curriculum, NextId(curriculum), data)
    /\ request' = [op |-> "create_curriculum", args |-> <<>>]
    /\ UNCHANGED threads
    /\ response' = Ok(NoBody)
    /\ queries' = <<"curriculum">>
    /\ UNCHANGED <<job_role, skill, course_skill, job_skill, skill_match_detail>>
    /\ UNCHANGED service

\* POST /job-role/ (routers/job_role.py)
create_job_role(data) ==
    /\ job_role' = Insert(job_role, NextId(job_role), data)
    /\ request' = [op |-> "create_job_role", args |-> <<>>]
    /\ UNCHANGED threads
    /\ response' = Ok(NoBody)
    /\ queries' = <<"job_role">>
    /\ UNCHANGED <<curriculum, skill, course_skill, job_skill, skill_match_detail>>
    /\ UNCHANGED service

\* DELETE /skill-match-detail/{detail_id} (routers/skill_match_detail.py);
\* the row stands for its detail_id
delete_skill_match_detail(detail) ==
    /\ request' = [op |-> "delete_skill_match_detail", args |-> <<>>]
    /\ UNCHANGED threads
    /\ IF detail \notin skill_match_detail
       THEN /\ response' = HTTPException(404, "Skill Match Detail not found")
            /\ queries' = <<"skill_match_detail">>
            /\ UNCHANGED skill_match_detail
       ELSE /\ skill_match_detail' = skill_match_detail \ {detail}
            /\ response' = Ok(NoBody)
            /\ queries' = <<"skill_match_detail", "skill_match_detail">>
    /\ UNCHANGED <<curriculum, job_role, skill, course_skill, job_skill>>
    /\ UNCHANGED service

\* the precomputation of options_summary: one row per curriculum and per job
\* that has a judgment, with its display label
refresh_options_summary ==
    /\ options_summary' =
           [exists |-> TRUE,
            rows |-> {[entity_type |-> "curriculum", entity_id |-> JoinedCurricula[n].id,
                       label |-> JoinedCurricula[n].label] :
                          n \in 1..Len(JoinedCurricula)}
                     \cup
                     {[entity_type |-> "job", entity_id |-> JoinedJobs[n].id,
                       label |-> JoinedJobs[n].label] :
                          n \in 1..Len(JoinedJobs)}]
    /\ request' = [op |-> "refresh_options_summary", args |-> <<>>]
    /\ UNCHANGED threads
    /\ response' = Ok(NoBody)
    /\ queries' = <<"curriculum", "job_role", "options_summary">>
    /\ UNCHANGED <<store, options_cache, recommendation_cache, env>>

(***************************************************************************)
(* The options stores: entities are created from small pools, judged with  *)
(* one skill, and the summary table is absent until it is first computed.  *)
(***************************************************************************)
\* rows of skill_match_detail in the options stores
MaxOptionDetails == 2

Other == <<"O","t","h","e","r">>
WebDevelopment == <<"I","T"," ","W","e","b"," ","D","e","v","e","l","o","p","m","e","n","t">>

CS1 == [track |-> Other, course_title |-> <<"C","S","1">>]
CS2 == [track |-> Other, course_title |-> <<"C","S","2">>]
Web == [track |-> WebDevelopment, course_title |-> <<"W","e","b">>]

Dev == [title |-> <<"D","e","v">>, query |-> <<>>]
DevBang == [title |-> <<"D","E","V","!">>, query |-> <<>>]
Statistician == [title |-> <<"S","t","a","t","i","s","t","i","c","s"," ">>, query |-> <<>>]
Analyst == [title |-> <<"A","n","a","l","y","s","t">>, query |-> <<"s","t","a","t","i","s","t","i","c","s","!">>]

\* the orders in which curricula and jobs are created
CurriculumScenarios == {<<CS1, CS2>>, <<CS1, Web>>}
JobScenarios == {<<Dev, DevBang>>, <<Statistician, Analyst>>, <<Dev, Analyst>>}

\* the rows of table are the first rows of scenario, in id order
IsPrefix(table, scenario) ==
    /\ DOMAIN table = 1..Cardinality(DOMAIN table)
    /\ Cardinality(DOMAIN table) < Len(scenario)
    /\ \A n \in DOMAIN table : table[n] = scenario[n]

InitOptions ==
    /\ curriculum = [id \in {1} |-> CS1]
    /\ job_role = [id \in {} |-> Dev]
    /\ skill = SkillCatalogue
    /\ course_skill = {}
    /\ job_skill = {}
    /\ skill_match_detail = {}
    /\ ServiceInit
    /\ request = [op |-> "startup", args |-> <<>>]
    /\ response = Ok(NoBody)
    /\ queries = <<>>

CurriculumRequest ==
    \E scenario \in CurriculumScenarios :
        /\ IsPrefix(curriculum, scenario)
        /\ create_curriculum(scenario[NextId(curriculum)])

JobRoleRequest ==
    \E scenario \in JobScenarios :
        /\ IsPrefix(job_role, scenario)
        /\ create_job_role(scenario[NextId(job_role)])

OptionDetailRequest ==
    \E c \in EntityIds, j \in EntityIds :
        /\ Cardinality(skill_match_detail) < MaxOptionDetails
        /\ create_skill_match_detail(c, j, 1, "match")

DeleteDetailRequest ==
    \E c \in EntityIds, j \in EntityIds :
        delete_skill_match_detail([curriculum_id |-> c, job_id |-> j,
                                   skill_id |-> 1, status |-> "match"])

OptionsRequest == \E db_up \in BOOLEAN : get_options(db_up)

NextOptions ==
    \/ CurriculumRequest
    \/ JobRoleRequest
    \/ OptionDetailRequest
    \/ DeleteDetailRequest
    \/ refresh_options_summary
    \/ OptionsRequest
    \/ invalidate_options_cache

SpecOptions == InitOptions /\ [][NextOptions]_vars

(***************************************************************************)
(* generate_recommendation and its cache (routers/gap_analysis.py).        *)
(***************************************************************************)
RECURSIVE Digits(_)
\* str(n) for a natural number n
Digits(n) ==
    IF n < 10 THEN <<Digit[n + 1]>>
    ELSE Digits(n \div 10) \o <<Digit[(n % 10) + 1]>>

\* str(x) for a float x >= 0 with one decimal, given in tenths: 500 -> "50.0"
FloatStr(tenths) == Digits(tenths \div 10) \o <<".">> \o Digits(tenths % 10)

\* f"{curriculum_title}_{job_title}_{coverage_score}_{relevance_score}"
cache_key(req) ==
    req.curriculum_title \o <<"_">> \o req.job_title \o <<"_">>
        \o FloatStr(req.coverage_score) \o <<"_">>
        \o FloatStr(req.relevance_score)

\* GEMINI_MODELS, in the order the loop tries them
GEMINI_MODELS ==
    <<"gemini-2.5-flash-lite", "gemini-2.5-flash", "gemini-2.5-pro",
      "gemini-2.0-flash-lite", "gemini-2.0-flash", "gemini-flash-lite-latest",
      "gemini-flash-latest", "gemini-pro-latest">>

\* the message returned without GOOGLE_API_KEY (after its warning sign)
ApiKeyMissing ==
    "API Key missing. Please set GOOGLE_API_KEY in your backend environment."

\* the message returned when no provider gave a text
AllModelsFailed ==
    "Unable to generate AI recommendations at this time. All models are currently unavailable. Please try again later."

\* {"recommendation": text}
Recommendation(text) == Ok([recommendation |-> text])

\* what a model of the loop yields: an answer marked "text" whose text is
\* empty is an empty answer
Answer(gemini, text, n) ==
    IF gemini[n] = "text" /\ text = "" THEN "empty" ELSE gemini[n]

\* the first model of the loop whose answer carries a text, 0 when none does
FirstText(gemini, text) ==
    IF \E n \in 1..Len(gemini) : Answer(gemini, text, n) = "text"
    THEN CHOOSE n \in 1..Len(gemini) :
             /\ Answer(gemini, text, n) = "text"
             /\ \A m \in 1..(n - 1) : Answer(gemini, text, m) # "text"
    ELSE 0

\* the call to Groq and what it did, when GROQ_API_KEY is set
GroqCalls(groq) ==
    IF env.GROQ_API_KEY THEN <<"groq:" \o groq>> ELSE <<>>

\* the calls to the first n models of GEMINI_MODELS and what each did
GeminiCalls(gemini, text, n) ==
    [i \in 1..n |-> GEMINI_MODELS[i] \o ":" \o Answer(gemini, text, i)]

\* variant: the cache is neither consulted nor filled
generate_recommendation_uncached(req, groq, gemini, text) ==
    LET first == FirstText(gemini, text)
    IN  /\ request' = [op |-> "generate_recommendation", args |-> <<req>>]
        /\ UNCHANGED threads
        /\ IF ~env.GOOGLE_API_KEY
           THEN /\ response' = Recommendation(ApiKeyMissing)
                /\ queries' = <<>>
           ELSE IF env.GROQ_API_KEY /\ groq = "ok"
           THEN /\ response' = Recommendation(text)
                /\ queries' = GroqCalls(groq)
           ELSE IF first > 0
           THEN /\ response' = Recommendation(text)
                /\ queries' = GroqCalls(groq) \o GeminiCalls(gemini, text, first)
           ELSE /\ response' = Recommendation(AllModelsFailed)
                /\ queries' = GroqCalls(groq)
                                \o GeminiCalls(gemini, text, Len(GEMINI_MODELS))
        /\ UNCHANGED <<store, options_summary, options_cache,
                       recommendation_cache, env>>

\* variant: the Groq request is made outside the try block
generate_recommendation_unguarded(req, groq, gemini, text) ==
    LET key == cache_key(req)
        first == FirstText(gemini, text)
    IN  /\ request' = [op |-> "generate_recommendation", args |-> <<req>>]
        /\ UNCHANGED threads
        /\ IF key \in DOMAIN recommendation_cache
           THEN /\ response' = Recommendation(recommendation_cache[key])
                /\ queries' = <<>>
                /\ UNCHANGED recommendation_cache
           ELSE IF ~env.GOOGLE_API_KEY
           THEN /\ response' = Recommendation(ApiKeyMissing)
                /\ queries' = <<>>
                /\ UNCHANGED recommendation_cache
           ELSE IF env.GROQ_API_KEY /\ groq = "ok"
           THEN /\ recommendation_cache' =
                       Insert(recommendation_cache, key, text)
                /\ response' = Recommendation(text)
                /\ queries' = GroqCalls(groq)
           ELSE IF env.GROQ_API_KEY /\ groq = "timeout"
           THEN /\ response' = [status |-> 500, detail |-> "Timeout",
                                body |-> NoBody]
                /\ queries' = GroqCalls(groq)
                /\ UNCHANGED recommendation_cache
           ELSE IF first > 0
           THEN /\ recommendation_cache' =
                       Insert(recommendation_cache, key, text)
                /\ response' = Recommendation(text)
                /\ queries' = GroqCalls(groq) \o GeminiCalls(gemini, text, first)
           ELSE /\ response' = Recommendation(AllModelsFailed)
                /\ queries' = GroqCalls(groq)
                                \o GeminiCalls(gemini, text, Len(GEMINI_MODELS))
                /\ UNCHANGED recommendation_cache
        /\ UNCHANGED <<store, options_summary, options_cache, env>>

\* POST /api/recommend.  groq is what the Groq request does ("ok", an HTTP
\* error, or an exception such as a timeout), gemini what each model of
\* GEMINI_MODELS does ("text", "empty", "blocked" or "error"), text the text
\* of the first answer that has one.  queries lists the providers called
\* with what each did.
generate_recommendation(req, groq, gemini, text) ==
    LET key == cache_key(req)
        first == FirstText(gemini, text)
    IN  /\ request' = [op |-> "generate_recommendation", args |-> <<req>>]
        /\ UNCHANGED threads
        /\ IF key \in DOMAIN recommendation_cache
           THEN /\ response' = Recommendation(recommendation_cache[key])
                /\ queries' = <<>>
                /\ UNCHANGED recommendation_cache
           ELSE IF ~env.GOOGLE_API_KEY
           THEN /\ response' = Recommendation(ApiKeyMissing)
                /\ queries' = <<>>
                /\ UNCHANGED recommendation_cache
           ELSE IF env.GROQ_API_KEY /\ groq = "ok"
           THEN /\ recommendation_cache' =
                       Insert(recommendation_cache, key, text)
                /\ response' = Recommendation(text)
                /\ queries' = GroqCalls(groq)
           ELSE IF first > 0
           THEN /\ recommendation_cache' =
                       Insert(recommendation_cache, key, text)
                /\ response' = Recommendation(text)
                /\ queries' = GroqCalls(groq) \o GeminiCalls(gemini, text, first)
           ELSE /\ response' = Recommendation(AllModelsFailed)
                /\ queries' = GroqCalls(groq)
                                \o GeminiCalls(gemini, text, Len(GEMINI_MODELS))
                /\ UNCHANGED recommendation_cache
        /\ UNCHANGED <<store, options_summary, options_cache, env>>

\* variant: the entries are counted and kept
clear_recommendation_cache_keep ==
    /\ request' = [op |-> "clear_recommendation_cache", args |-> <<>>]
    /\ UNCHANGED threads
    /\ response' = Ok([message |-> "Cleared "
                          \o ToString(Cardinality(DOMAIN recommendation_cache))
                          \o " cached recommendations"])
    /\ queries' = <<>>
    /\ UNCHANGED <<store, service>>

\* POST /api/recommend/clear-cache
clear_recommendation_cache ==
    /\ recommendation_cache' = EmptyCache
    /\ request' = [op |-> "clear_recommendation_cache", args |-> <<>>]
    /\ UNCHANGED threads
    /\ response' = Ok([message |-> "Cleared "
                          \o ToString(Cardinality(DOMAIN recommendation_cache))
                          \o " cached recommendations"])
    /\ queries' = <<>>
    /\ UNCHANGED <<store, options_summary, options_cache, env>>

(***************************************************************************)
(* The service with both caches: a store with one judged pair, any         *)
(* environment, and up to MaxCached recommendations.                       *)
(***************************************************************************)
\* entries of _RECOMMENDATION_CACHE
MaxCached == 2

\* one request, and the requests that differ from it in one field or in the
\* place of the underscore between the two titles
BaseRequest ==
    [curriculum_title |-> <<"A","_","B">>, job_title |-> <<"C">>,
     missing_skills |-> <<>>, coverage_score |-> 500,
     relevance_score |-> 1000]

RecommendationRequests ==
    {BaseRequest,
     [BaseRequest EXCEPT !.curriculum_title = <<"A">>,
                         !.job_title = <<"B","_","C">>],
     [BaseRequest EXCEPT !.curriculum_title = <<"A">>],
     [BaseRequest EXCEPT !.job_title = <<"B","_","C">>],
     [BaseRequest EXCEPT !.missing_skills = <<Python>>],
     [BaseRequest EXCEPT !.coverage_score = 667],
     [BaseRequest EXCEPT !.relevance_score = 500]}

Texts == {"", "Add a course on SQL."}

GeminiAnswers ==
    {[n \in 1..Len(GEMINI_MODELS) |-> "error"],
     [n \in 1..Len(GEMINI_MODELS) |-> "text"],
     [n \in 1..Len(GEMINI_MODELS) |->
         IF n = 1 THEN "blocked" ELSE IF n = 2 THEN "empty" ELSE "text"]}

InitCaches ==
    /\ curriculum = [id \in {1} |-> CS1]
    /\ job_role = [id \in {1} |-> Dev]
    /\ skill = SkillCatalogue
    /\ course_skill = {<<1, 1>>}
    /\ job_skill = {}
    /\ skill_match_detail = {[curriculum_id |-> 1, job_id |-> 1,
                              skill_id |-> 1, status |-> "match"]}
    /\ options_summary = NoSummary
    /\ options_cache = NoOptions
    /\ recommendation_cache = EmptyCache
    /\ env \in [GOOGLE_API_KEY : BOOLEAN, GROQ_API_KEY : BOOLEAN]
    /\ threads = NoThreads
    /\ request = [op |-> "startup", args |-> <<>>]
    /\ response = Ok(NoBody)
    /\ queries = <<>>

RecommendRequest ==
    \E req \in RecommendationRequests :
        \E groq \in {"ok", "http_error", "timeout"} :
            \E gemini \in GeminiAnswers : \E text \in Texts :
                /\ \/ cache_key(req) \in DOMAIN recommendation_cache
                   \/ Cardinality(DOMAIN recommendation_cache) < MaxCached
                /\ generate_recommendation(req, groq, gemini, text)

NextCaches ==
    \/ AnalyzeRequest
    \/ OptionsRequest
    \/ invalidate_options_cache
    \/ RecommendRequest
    \/ clear_recommendation_cache

SpecCaches == InitCaches /\ [][NextCaches]_vars

(***************************************************************************)
(* normalize_string on its own: a text of up to MaxTextLen characters is   *)
(* normalized, and the result is normalized again.                         *)
(***************************************************************************)
MaxTextLen == 3

\* one character of each kind normalize_string tells apart
TextAlphabet == {"A", "z", "7", " ", "!", "-"}

\* the texts of up to n characters
TextsUpTo(n) == UNION {[1..k -> TextAlphabet] : k \in 0..n}

InitNormalize ==
    /\ curriculum = [id \in {1} |-> CS1]
    /\ job_role = [id \in {1} |-> Dev]
    /\ skill = SkillCatalogue
    /\ course_skill = {}
    /\ job_skill = {}
    /\ skill_match_detail = {}
    /\ ServiceInit
    /\ request \in {[op |-> "text", args |-> <<text>>] : text \in TextsUpTo(MaxTextLen)}
    /\ response = Ok(NoBody)
    /\ queries = <<>>

\* norm = normalize_string(label), as get_options calls it on a label
normalize_call(text) ==
    /\ request' = [op |-> "normalize_string", args |-> <<text>>]
    /\ response' = Ok([text |-> normalize_string(text)])
    /\ queries' = <<>>
    /\ UNCHANGED <<store, service, threads>>

\* the text given at the start, then the result of the call before
NextNormalize ==
    \/ request.op = "text" /\ normalize_call(request.args[1])
    \/ request.op = "normalize_string" /\ normalize_call(response.body.text)

SpecNormalize == InitNormalize /\ [][NextNormalize]_vars

\* ---------------------------------------------------------------------
\* get_options, the warm-up thread and invalidate_options_cache, step by step
\*
\* FastAPI runs each call of a def endpoint in a worker thread, and
\* preload_caches starts one more.  A thread of threads is a call in
\* progress: op is what it runs, pc the statement it is at, value the options
\* object it has built, result what get_options returned to it (NoOptions
\* stands for None), error the exception that ended it ("" for none).
\* _OPTIONS_CACHE is read and written without a lock, one global load or
\* store at a time.

\* the worker threads that serve get_options requests
MaxRequestThreads == 2

\* the thread started by preload_caches
WarmThread == "warm"

RequestThreads == {"request" \o ToString(n) : n \in 1..MaxRequestThreads}

\* a thread that has just been handed its function
Started(op, pc) ==
    [op |-> op, pc |-> pc, value |-> NoOptions.value, result |-> NoOptions,
     error |-> ""]

\* threads with thread t replaced by the record th
Step(t, th) == [u \in DOMAIN threads \cup {t} |-> IF u = t THEN th ELSE threads[u]]

\* the options object get_options builds from the store as it is now
BuiltOptions ==
    IF options_summary.exists
    THEN [curricula |-> curriculum_options(SummaryRows("curriculum"), {}),
          jobs |-> job_options(SummaryRows("job"), {})]
    ELSE [curricula |-> curriculum_options(JoinedCurricula, {}),
          jobs |-> job_options(JoinedJobs, {})]

InitOptionsThreads ==
    /\ curriculum = [id \in {1} |-> CS1]
    /\ job_role = [id \in {1} |-> Dev]
    /\ skill = SkillCatalogue
    /\ course_skill = {}
    /\ job_skill = {}
    /\ skill_match_detail = {}
    /\ options_summary = NoSummary
    /\ options_cache = NoOptions
    /\ recommendation_cache = EmptyCache
    /\ env = [GOOGLE_API_KEY |-> TRUE, GROQ_API_KEY |-> TRUE]
    /\ threads = NoThreads
    /\ request = [op |-> "startup", args |-> <<>>]
    /\ response = Ok(NoBody)
    /\ queries = <<>>

\* what a step of a thread leaves alone besides threads and _OPTIONS_CACHE
ThreadFrame ==
    UNCHANGED <<store, options_summary, recommendation_cache, env,
                request, response, queries>>

\* variant: preload_caches runs the warm-up itself before it returns
preload_caches_waiting(started) ==
    /\ request.op = "startup"
    /\ request' = [op |-> "preload_caches", args |-> <<>>]
    /\ response' = Ok(NoBody)
    /\ queries' = <<>>
    /\ threads' = IF started
                  THEN Step(WarmThread,
                            [Started("warm_cache_background", "done")
                                EXCEPT !.value = BuiltOptions,
                                       !.result = Cached(BuiltOptions)])
                  ELSE threads
    /\ options_cache' = IF started THEN Cached(BuiltOptions) ELSE options_cache
    /\ UNCHANGED <<store, options_summary, recommendation_cache, env>>

\* the startup handler: it starts the warm-up thread and returns; started is
\* whether Thread(...).start() worked, its exception being caught
preload_caches(started) ==
    /\ request.op = "startup"
    /\ request' = [op |-> "preload_caches", args |-> <<>>]
    /\ response' = Ok(NoBody)
    /\ queries' = <<>>
    /\ threads' = IF started
                  THEN Step(WarmThread, Started("warm_cache_background", "session"))
                  ELSE threads
    /\ UNCHANGED <<store, options_summary, options_cache,
                   recommendation_cache, env>>

\* a get_options request is handed to the worker thread t
start_get_options(t) ==
    /\ request.op # "startup"
    /\ t \in RequestThreads \ DOMAIN threads
    /\ threads' = Step(t, Started("get_options", "test"))
    /\ UNCHANGED options_cache
    /\ ThreadFrame

\* warm_cache_background: the imports and SessionLocal(); an exception is
\* caught by the outer handler and ends the thread
warm_session(ok) ==
    /\ WarmThread \in DOMAIN threads
    /\ threads[WarmThread].pc = "session"
    /\ threads' = Step(WarmThread,
                       IF ok
                       THEN [threads[WarmThread] EXCEPT !.pc = "test"]
                       ELSE [threads[WarmThread] EXCEPT !.pc = "done",
                                                        !.error = "SessionError"])
    /\ UNCHANGED options_cache
    /\ ThreadFrame

\* get_options: the load of _OPTIONS_CACHE for the test "is not None"
test_cache(t) ==
    /\ t \in DOMAIN threads
    /\ threads[t].pc = "test"
    /\ threads' = Step(t, [threads[t] EXCEPT
                              !.pc = IF options_cache.populated
                                     THEN "return_cached" ELSE "read"])
    /\ UNCHANGED options_cache
    /\ ThreadFrame

\* where a thread goes on when get_options returns to it
AfterReturn(t) ==
    IF threads[t].op = "warm_cache_background" THEN "report" ELSE "done"

\* get_options: "return _OPTIONS_CACHE", which loads the global again, after
\* the test and after the assignment alike
return_cache(t) ==
    /\ t \in DOMAIN threads
    /\ threads[t].pc \in {"return_cached", "return_new"}
    /\ threads' = Step(t, [threads[t] EXCEPT !.pc = AfterReturn(t),
                                             !.result = options_cache])
    /\ UNCHANGED options_cache
    /\ ThreadFrame

\* get_options: the queries and the two loops that build the lists; when the
\* database does not answer the exception leaves get_options: the request
\* fails, the warm-up thread catches it
read_store(t, db_up) ==
    /\ t \in DOMAIN threads
    /\ threads[t].pc = "read"
    /\ threads' = Step(t,
           IF db_up
           THEN [threads[t] EXCEPT !.pc = "assign", !.value = BuiltOptions]
           ELSE IF threads[t].op = "warm_cache_background"
           THEN [threads[t] EXCEPT !.pc = "done", !.error = "OperationalError"]
           ELSE [threads[t] EXCEPT !.pc = "raised", !.error = "OperationalError"])
    /\ UNCHANGED options_cache
    /\ ThreadFrame

\* get_options: _OPTIONS_CACHE = {"curricula": ..., "jobs": ...}
assign_cache(t) ==
    /\ t \in DOMAIN threads
    /\ threads[t].pc = "assign"
    /\ options_cache' = Cached(threads[t].value)
    /\ threads' = Step(t, [threads[t] EXCEPT !.pc = "return_new"])
    /\ ThreadFrame

\* warm_cache_background: len(result.get('curricula', [])); on None the
\* AttributeError is caught by the inner handler
report_result ==
    /\ WarmThread \in DOMAIN threads
    /\ threads[WarmThread].pc = "report"
    /\ threads' = Step(WarmThread,
                       IF threads[WarmThread].result.populated
                       THEN [threads[WarmThread] EXCEPT !.pc = "done"]
                       ELSE [threads[WarmThread] EXCEPT !.pc = "done",
                                                        !.error = "AttributeError"])
    /\ UNCHANGED options_cache
    /\ ThreadFrame

\* a judgment is stored while calls are in progress
StoreChange ==
    /\ request.op # "startup"
    /\ skill_match_detail = {}
    /\ create_skill_match_detail(1, 1, 1, "match")

\* invalidate_options_cache is called while calls are in progress
Invalidation ==
    /\ request.op # "startup"
    /\ request.op # "invalidate_options_cache"
    /\ invalidate_options_cache

NextOptionsThreads ==
    \/ \E started \in BOOLEAN : preload_caches(started)
    \/ \E t \in RequestThreads : start_get_options(t)
    \/ \E ok \in BOOLEAN : warm_session(ok)
    \/ \E t \in DOMAIN threads : test_cache(t)
    \/ \E t \in DOMAIN threads : return_cache(t)
    \/ \E t \in DOMAIN threads : \E db_up \in BOOLEAN : read_store(t, db_up)
    \/ \E t \in DOMAIN threads : assign_cache(t)
    \/ report_result
    \/ StoreChange
    \/ Invalidation

SpecOptionsThreads == InitOptionsThreads /\ [][NextOptionsThreads]_vars

\* ---------------------------------------------------------------------
\* generate_recommendation and clear_recommendation_cache, step by step
\*
\* A thread of a generate_recommendation call holds its cache key, the text
\* it returned and the exception that ended it.  _RECOMMENDATION_CACHE is
\* loaded once for the membership test and once more for the subscript;
\* clear_recommendation_cache binds the global to a new empty dict.

InitRecommendationThreads ==
    /\ curriculum = [id \in {1} |-> CS1]
    /\ job_role = [id \in {1} |-> Dev]
    /\ skill = SkillCatalogue
    /\ course_skill = {}
    /\ job_skill = {}
    /\ skill_match_detail = {}
    /\ options_summary = NoSummary
    /\ options_cache = NoOptions
    /\ recommendation_cache = EmptyCache
    /\ env = [GOOGLE_API_KEY |-> TRUE, GROQ_API_KEY |-> TRUE]
    /\ threads = NoThreads
    /\ request = [op |-> "startup", args |-> <<>>]
    /\ response = Ok(NoBody)
    /\ queries = <<>>

\* what a step of a generate_recommendation thread leaves alone besides
\* threads and _RECOMMENDATION_CACHE
RecommendationFrame ==
    UNCHANGED <<store, options_summary, options_cache, env,
                request, response, queries>>

\* a generate_recommendation request is handed to the worker thread t
start_generate_recommendation(t, req) ==
    /\ t \in RequestThreads \ DOMAIN threads
    /\ threads' = Step(t, [op |-> "generate_recommendation", pc |-> "member",
                           key |-> cache_key(req), result |-> "",
                           error |-> ""])
    /\ UNCHANGED recommendation_cache
    /\ RecommendationFrame

\* "if cache_key in _RECOMMENDATION_CACHE:" and the print that follows it
test_key(t) ==
    /\ t \in DOMAIN threads
    /\ threads[t].pc = "member"
    /\ threads' = Step(t, [threads[t] EXCEPT
                              !.pc = IF threads[t].key \in DOMAIN recommendation_cache
                                     THEN "read_cached" ELSE "providers"])
    /\ UNCHANGED recommendation_cache
    /\ RecommendationFrame

\* return {"recommendation": _RECOMMENDATION_CACHE[cache_key]}: the global is
\* loaded again and the subscript raises KeyError on a missing key
read_cached(t) ==
    /\ t \in DOMAIN threads
    /\ threads[t].pc = "read_cached"
    /\ threads' = Step(t,
           IF threads[t].key \in DOMAIN recommendation_cache
           THEN [threads[t] EXCEPT !.pc = "done",
                                   !.result = recommendation_cache[threads[t].key]]
           ELSE [threads[t] EXCEPT !.pc = "raised", !.error = "KeyError"])
    /\ UNCHANGED recommendation_cache
    /\ RecommendationFrame

\* the miss path with both keys set: Groq answers with text and the text is
\* stored, or Groq and every Gemini model fail and the placeholder is returned
call_providers(t, groq, text) ==
    /\ t \in DOMAIN threads
    /\ threads[t].pc = "providers"
    /\ IF groq = "ok"
       THEN /\ recommendation_cache' =
                   Insert(recommendation_cache, threads[t].key, text)
            /\ threads' = Step(t, [threads[t] EXCEPT !.pc = "done",
                                                     !.result = text])
       ELSE /\ threads' = Step(t, [threads[t] EXCEPT !.pc = "done",
                                                     !.result = AllModelsFailed])
            /\ UNCHANGED recommendation_cache
    /\ RecommendationFrame

NextRecommendationThreads ==
    \/ \E t \in RequestThreads :
           \E req \in {BaseRequest, [BaseRequest EXCEPT !.coverage_score = 667]} :
               start_generate_recommendation(t, req)
    \/ \E t \in DOMAIN threads : test_key(t)
    \/ \E t \in DOMAIN threads : read_cached(t)
    \/ \E t \in DOMAIN threads :
           \E groq \in {"ok", "timeout"} : \E text \in Texts :
               call_providers(t, groq, text)
    \/ clear_recommendation_cache

SpecRecommendationThreads ==
    InitRecommendationThreads /\ [][NextRecommendationThreads]_vars

(***************************************************************************)
(* Properties of analyze.  They relate the last response to the store it   *)
(* was computed from: every later write replaces the response.             *)
(***************************************************************************)
\* the last request was an analyze call that returned a result
IsAnalysis == request.op = "analyze" /\ response.status = 200

ReqCurriculum == request.args[1]
ReqJob == request.args[2]
Result == response.body

\* the judgments stored for the analyzed pair
PairRows ==
    {r \in skill_match_detail :
        r.curriculum_id = ReqCurriculum /\ r.job_id = ReqJob}

\* the skill names judged with one of the given statuses
NamesJudged(statuses) ==
    {skill[r.skill_id] : r \in {x \in PairRows : x.status \in statuses}}

\* the number of Curriculum-Skill links of the analyzed curriculum
LinkCount == Cardinality({l \in course_skill : l[1] = ReqCurriculum})

\* the names of the skills the analyzed job requires
JobRequired == {skill[l[2]] : l \in {x \in job_skill : x[1] = ReqJob}}

Abs(x) == IF x < 0 THEN 0 - x ELSE x

\* tenths is num / den as a percentage rounded to one decimal
IsPercentOf(tenths, num, den) == 2 * Abs(tenths * den - 1000 * num) <= den

NoDuplicates(seq) ==
    \A i \in 1..Len(seq) : \A k \in 1..Len(seq) : seq[i] = seq[k] => i = k

\* scenario A: ten links, python=match, sql=partial, docker=gap
ScenarioA ==
    /\ IsAnalysis
    /\ LinkCount = 10
    /\ NamesJudged({"match"}) = {Python}
    /\ NamesJudged({"partial"}) = {SQL}
    /\ NamesJudged({"gap"}) = {Docker}

\* C1 (as claimed): no skill is listed both in the covered list 'exact' and
\* in the 'gaps' list of an analyze result.
C1_CoveredAndGapsDisjoint ==
    IsAnalysis => Range(Result.exact) \cap Range(Result.gaps) = {}

\* C2 (as claimed): 'match' and 'partial' are covered and only 'gap' is
\* missing; scenario A gives 2 matching, 1 missing, 66.7% and 20.0%.
C2_PartialCounted ==
    IsAnalysis =>
        /\ Range(Result.exact) = NamesJudged({"match", "partial"})
        /\ ScenarioA =>
              /\ Result.matchingSkills = 2
              /\ Result.missingSkills = 1
              /\ Result.coverage = "66.7%"
              /\ Result.relevance = "20.0%"

\* C2 (amended): only 'match' is covered; 'partial' and 'gap' are both
\* missing; scenario A gives 1 matching, 2 missing, 33.3% and 10.0%.
C2_MatchOnlyCovered ==
    IsAnalysis =>
        /\ Range(Result.exact) = NamesJudged({"match"})
        /\ Range(Result.gaps) = NamesJudged({"partial", "gap"})
        /\ ScenarioA =>
              /\ Result.matchingSkills = 1
              /\ Result.missingSkills = 2
              /\ Result.coverage = "33.3%"
              /\ Result.relevance = "10.0%"
              /\ Result.coverage_score = 333
              /\ Result.relevance_score = 100

\* scenario A has been analyzed
C2_Witness == ScenarioA

\* C3 (as claimed): when the job has required skills, every entry of 'gaps'
\* is one of them.
C3_GapsAreRequired ==
    (IsAnalysis /\ JobRequired # {}) => Range(Result.gaps) \subseteq JobRequired

\* C3 (amended): the entries of 'gaps' are the skills of the pair's judgments
\* whose status is not 'match', whatever the job's Job-Skill links are.
C3_GapsFromJudgments ==
    IsAnalysis => Range(Result.gaps) = NamesJudged({"partial", "gap"})

\* a gap is reported for a skill the job does not require
C3_Witness ==
    /\ IsAnalysis
    /\ JobRequired # {}
    /\ \E n \in Range(Result.gaps) : n \notin JobRequired

\* C4: coverage_score and relevance_score lie in [0, 100] (0..1000 tenths)
\* for every store, also with no links and no judgments.
C4_ScoresInRange ==
    IsAnalysis =>
        /\ Result.coverage_score \in 0..1000
        /\ Result.relevance_score \in 0..1000

\* more matched skills than the curriculum has links
C4_Witness ==
    /\ IsAnalysis
    /\ LinkCount > 0
    /\ Result.matchingSkills > LinkCount

\* C5: matchingSkills and missingSkills are the lengths of the two lists and
\* coverage is matchingSkills / (matchingSkills + missingSkills), or 0.
C5_CountsAndCoverage ==
    IsAnalysis =>
        LET m == Result.matchingSkills
            g == Result.missingSkills
        IN  /\ m = Cardinality(NamesJudged({"match"}))
            /\ m = Len(Result.exact)
            /\ g = Len(Result.gaps)
            /\ IF m + g = 0
               THEN Result.coverage_score = 0
               ELSE IsPercentOf(Result.coverage_score, m, m + g)

\* a result with matched and missing skills
C5_Witness ==
    /\ IsAnalysis
    /\ Result.matchingSkills = 1
    /\ Result.missingSkills = 1
    /\ Result.coverage_score = 500

\* C6: relevance is min(1, matchingSkills / N), N the number of links, with
\* matchingSkills as the denominator when N is zero, and 0 when that is zero
\* too; no links and 3 matches give 100.0%.
C6_Relevance ==
    IsAnalysis =>
        LET m == Result.matchingSkills
            den == IF LinkCount = 0 THEN m ELSE LinkCount
        IN  /\ IF den = 0 THEN Result.relevance_score = 0
               ELSE IF m >= den THEN Result.relevance_score = 1000
               ELSE IsPercentOf(Result.relevance_score, m, den)
            /\ (LinkCount = 0 /\ m = 3) => Result.relevance = "100.0%"

\* scenario C: no links, three matched skills
C6_Witness ==
    /\ IsAnalysis
    /\ LinkCount = 0
    /\ Result.matchingSkills = 3

\* C7 (as claimed): irrelevantSkills is max(0, T - matchingSkills), T the
\* number of links, or matchingSkills when there are none.
C7_Irrelevant ==
    IsAnalysis =>
        LET m == Result.matchingSkills
            t == IF LinkCount = 0 THEN m ELSE LinkCount
        IN  Result.irrelevantSkills = (IF t - m > 0 THEN t - m ELSE 0)

\* C8: with no judgments for the pair the result is 0.0%, 0.0% and two
\* empty lists, whatever the number of links.
C8_NoJudgments ==
    (IsAnalysis /\ PairRows = {}) =>
        /\ Result.coverage = "0.0%"
        /\ Result.relevance = "0.0%"
        /\ Result.coverage_score = 0
        /\ Result.relevance_score = 0
        /\ Result.exact = <<>>
        /\ Result.gaps = <<>>

\* a curriculum with links analyzed without judgments
C8_Witness == IsAnalysis /\ PairRows = {} /\ LinkCount > 0

\* C9: an unknown curriculum or job id gives 404 and no result; an unknown
\* curriculum id fails after the curriculum lookup alone.
C9_NotFound ==
    request.op = "analyze" =>
        /\ (ReqCurriculum \notin DOMAIN curriculum \/ ReqJob \notin DOMAIN job_role)
              => (response.status = 404 /\ response.body = NoBody)
        /\ ReqCurriculum \notin DOMAIN curriculum
              => queries = <<"curriculum">>

\* analyze called with an unknown curriculum id and a known job id
C9_Witness ==
    /\ request.op = "analyze"
    /\ ReqCurriculum \notin DOMAIN curriculum
    /\ ReqJob \in DOMAIN job_role
    /\ response.status = 404

\* C10 (as claimed): names equal after normalize_string are one entry of each
\* list, and a name that normalizes to the empty string is in neither.
C10_NormalizedEntries ==
    IsAnalysis =>
        \A list \in {Result.exact, Result.gaps} :
            /\ \A i \in 1..Len(list) : \A k \in 1..Len(list) :
                  normalize_string(list[i]) = normalize_string(list[k]) => i = k
            /\ \A i \in 1..Len(list) : normalize_string(list[i]) # <<>>

\* C10 (amended): each list holds every judged raw skill name once, in
\* sorted order; names that differ by case or punctuation stay apart and a
\* name that normalizes to the empty string stays listed.
C10_RawEntries ==
    IsAnalysis =>
        /\ NoDuplicates(Result.exact)
        /\ NoDuplicates(Result.gaps)
        /\ Range(Result.exact) = NamesJudged({"match"})
        /\ Range(Result.gaps) = NamesJudged(StatusType \ {"match"})
        /\ \A i \in 1..(Len(Result.gaps) - 1) :
              StrLess(Result.gaps[i], Result.gaps[i + 1])

\* "Python" and "python!!" both covered, "++" reported as a gap
C10_Witness ==
    /\ IsAnalysis
    /\ Result.exact = <<Python, PythonBang>>
    /\ Result.gaps = <<PlusPlus>>

\* C11: the result of analyze(c, j) is a function of the judgments whose
\* curriculum_id is c and job_id is j (with the skill names and the link
\* count of c): it equals the result computed from those rows alone, whatever
\* judgments the store holds for other pairs
C11_OnlyPairRows ==
    IsAnalysis =>
        Result = GapAnalysisResult({<<r, skill[r.skill_id]>> : r \in PairRows},
                                   LinkCount)

\* an analysis of a judged pair while the store holds judgments of another
\* job for the same curriculum
C11_Witness ==
    /\ IsAnalysis
    /\ PairRows # {}
    /\ \E r \in skill_match_detail :
           r.curriculum_id = ReqCurriculum /\ r.job_id # ReqJob

(***************************************************************************)
(* Properties of get_options.                                              *)
(***************************************************************************)
\* the last request was a get_options call that returned a result
IsOptions == request.op = "get_options" /\ response.status = 200

\* the last get_options result was computed by this call, through the
\* summary table or through the live join
FromSummary == IsOptions /\ queries = <<"options_summary", "options_summary">>
FromLiveJoin ==
    IsOptions /\ queries = <<"options_summary", "curriculum", "job_role">>
FromCache == IsOptions /\ queries = <<>>

JudgedCurricula ==
    {i \in DOMAIN curriculum : \E r \in skill_match_detail : r.curriculum_id = i}
JudgedJobs ==
    {i \in DOMAIN job_role : \E r \in skill_match_detail : r.job_id = i}

\* list has an entry whose label normalizes like label
Shown(list, label) ==
    \E n \in 1..Len(list) :
        normalize_string(list[n].label) = normalize_string(label)

\* every judged curriculum and every judged job that the blacklist does not
\* hide is in the last result, itself or through an entry of the same
\* normalized label
JudgedAreShown ==
    /\ \A i \in JudgedCurricula :
          normalize_string(CurriculumLabel(curriculum[i])) # <<>>
              => Shown(response.body.curricula, CurriculumLabel(curriculum[i]))
    /\ \A i \in JudgedJobs :
          (/\ ~IsBlacklisted(JobLabel(job_role[i]))
           /\ normalize_string(JobLabel(job_role[i])) # <<>>)
              => Shown(response.body.jobs, JobLabel(job_role[i]))

\* the same for the entities options_summary lists
ListedAreShown ==
    \A r \in options_summary.rows :
        (/\ normalize_string(r.label) # <<>>
         /\ r.entity_type = "job" => ~IsBlacklisted(r.label))
            => IF r.entity_type = "job"
               THEN Shown(response.body.jobs, r.label)
               ELSE Shown(response.body.curricula, r.label)

\* a populated cache answers get_options by itself and is left alone by
\* every request but invalidate_options_cache
CacheServes ==
    options_cache.populated =>
        /\ request'.op = "get_options" =>
              /\ response' = Ok(options_cache.value)
              /\ queries' = <<>>
        /\ request'.op # "invalidate_options_cache" =>
              options_cache' = options_cache

\* C12 (as stated): once populated, the cache answers every get_options
\* without a query and keeps its value until invalidate_options_cache; the
\* first successful get_options on an empty cache shows every judged entity
C12_StaleUntilInvalidated ==
    [][/\ CacheServes
       /\ (~options_cache.populated /\ IsOptions') => JudgedAreShown']_vars

\* C12 (amended): the same, where the first get_options on an empty cache
\* shows every judged entity when it runs the live join, and every entity
\* listed in options_summary when it reads the summary table
C12_StaleUntilRecomputed ==
    [][/\ CacheServes
       /\ (~options_cache.populated /\ IsOptions') =>
             /\ queries' # <<>>
             /\ options_cache' = Cached(response'.body)
             /\ FromLiveJoin' => JudgedAreShown'
             /\ FromSummary' => ListedAreShown']_vars

\* a cache hit that leaves out a judged job, and the cache it came from
C12_Witness ==
    /\ FromCache
    /\ ~JudgedAreShown
    /\ options_cache = Cached(response.body)

\* the ids of the entries of a list of options
Ids(list) == {list[n].id : n \in 1..Len(list)}

\* the string is in the blacklist by its normalized or its lowercase form
InBlacklist(text) ==
    normalize_string(text) \in BLACKLIST_JOBS \/ ToLower(text) \in BLACKLIST_JOBS

\* C13 (as stated): no job of a get_options result, computed or served from
\* the cache, has a label or a title that is in the blacklist by its
\* normalized or its lowercase form
C13_NoBlacklistedJob ==
    IsOptions =>
        \A n \in 1..Len(response.body.jobs) :
            LET entry == response.body.jobs[n]
            IN  /\ ~InBlacklist(entry.label)
                /\ entry.id \in DOMAIN job_role =>
                       ~InBlacklist(job_role[entry.id].title)

\* C13 (amended): no job of a get_options result, computed or served from
\* the cache, has a label whose lowercase form without surrounding
\* whitespace is in the blacklist
C13_NoBlacklistedLabel ==
    /\ IsOptions =>
          \A n \in 1..Len(response.body.jobs) :
              strip(ToLower(response.body.jobs[n].label)) \notin BLACKLIST_JOBS
    /\ \A n \in 1..Len(options_cache.value.jobs) :
          strip(ToLower(options_cache.value.jobs[n].label)) \notin BLACKLIST_JOBS

\* a result computed while a judged job carries a blacklisted label
C13_Witness ==
    /\ IsOptions
    /\ queries # <<>>
    /\ \E i \in JudgedJobs :
           strip(ToLower(JobLabel(job_role[i]))) \in BLACKLIST_JOBS
    /\ response.body.jobs # <<>>

\* no two entries of the list have labels of the same normalized form
DistinctLabels(list) ==
    \A n \in 1..Len(list) : \A m \in 1..Len(list) :
        normalize_string(list[n].label) = normalize_string(list[m].label)
            => n = m

\* the candidates of the last computed result, as records [id, label]: the
\* rows of the summary table, or the judged entities of the live join
CandidateCurricula ==
    IF FromSummary THEN Range(SummaryRows("curriculum"))
    ELSE Range(JoinedCurricula)
CandidateJobs ==
    IF FromSummary THEN Range(SummaryRows("job")) ELSE Range(JoinedJobs)

\* every entry of the list has the smallest id among the candidates that
\* share its normalized label
SmallestIdWins(list, candidates) ==
    \A n \in 1..Len(list) : \A k \in candidates :
        normalize_string(k.label) = normalize_string(list[n].label)
            => list[n].id <= k.id

\* C14 (as stated): the labels of each list are distinct after normalization,
\* and each entry of a computed result has the smallest id among the
\* candidate entities of its normalized label
C14_FirstSeenWins ==
    IsOptions =>
        /\ DistinctLabels(response.body.curricula)
        /\ DistinctLabels(response.body.jobs)
        /\ (FromSummary \/ FromLiveJoin) =>
              /\ SmallestIdWins(response.body.curricula, CandidateCurricula)
              /\ SmallestIdWins(response.body.jobs, CandidateJobs)

\* C14 (amended): the same, among the candidate jobs the blacklist does not
\* hide
C14_FirstShownWins ==
    IsOptions =>
        /\ DistinctLabels(response.body.curricula)
        /\ DistinctLabels(response.body.jobs)
        /\ (FromSummary \/ FromLiveJoin) =>
              /\ SmallestIdWins(response.body.curricula, CandidateCurricula)
              /\ SmallestIdWins(response.body.jobs,
                                {k \in CandidateJobs : ~IsBlacklisted(k.label)})

\* two judged jobs of the same normalized label, the first one returned
C14_Witness ==
    /\ FromLiveJoin
    /\ JudgedJobs = {1, 2}
    /\ normalize_string(JobLabel(job_role[1]))
           = normalize_string(JobLabel(job_role[2]))
    /\ Ids(response.body.jobs) = {1}

\* C15 (as stated): every id of a result computed through the summary table
\* or through the live join has a judgment in the store the result was
\* computed from
C15_ReturnedAreJudged ==
    (FromSummary \/ FromLiveJoin) =>
        /\ Ids(response.body.curricula) \subseteq JudgedCurricula
        /\ Ids(response.body.jobs) \subseteq JudgedJobs

\* C15 (amended): every id of a result computed through the live join has a
\* judgment in the store; every id of a result computed through the summary
\* table is an id options_summary lists for that entity type
C15_ReturnedAreJudgedOrListed ==
    /\ FromLiveJoin =>
          /\ Ids(response.body.curricula) \subseteq JudgedCurricula
          /\ Ids(response.body.jobs) \subseteq JudgedJobs
    /\ FromSummary =>
          /\ Ids(response.body.curricula) \subseteq
                 {r.entity_id : r \in {x \in options_summary.rows :
                                          x.entity_type = "curriculum"}}
          /\ Ids(response.body.jobs) \subseteq
                 {r.entity_id : r \in {x \in options_summary.rows :
                                          x.entity_type = "job"}}

\* a live join that leaves out a curriculum without judgments
C15_Witness ==
    /\ FromLiveJoin
    /\ JudgedCurricula # {}
    /\ DOMAIN curriculum \ JudgedCurricula # {}
    /\ Ids(response.body.curricula) = JudgedCurricula

\* C16: every get_options call returns an options object with the lists
\* curricula and jobs
C16_NeverFails ==
    request.op = "get_options" =>
        /\ response.status = 200
        /\ DOMAIN response.body = {"curricula", "jobs"}

(***************************************************************************)
(* Properties of the two caches.                                           *)
(***************************************************************************)
IsRecommend == request.op = "generate_recommendation"

\* the key of the last generate_recommendation request
LastKey == cache_key(request.args[1])

\* the last generate_recommendation answered from the cache
FromRecommendationCache ==
    /\ IsRecommend
    /\ queries = <<>>
    /\ LastKey \in DOMAIN recommendation_cache
    /\ response = Recommendation(recommendation_cache[LastKey])

\* the last generate_recommendation got a text from a provider
FromProvider ==
    /\ IsRecommend
    /\ queries # <<>>
    /\ response.body.recommendation # AllModelsFailed

\* C17: analyze changes neither the store nor a cache, whether it returns a
\* result or NotFound; get_options changes nothing but the options cache and
\* generate_recommendation nothing but the recommendation cache
C17_ReadOnly ==
    [][/\ request'.op = "analyze" =>
              UNCHANGED <<store, options_summary, options_cache,
                          recommendation_cache>>
       /\ request'.op = "get_options" =>
              UNCHANGED <<store, options_summary, recommendation_cache>>
       /\ request'.op = "generate_recommendation" =>
              UNCHANGED <<store, options_summary, options_cache>>]_vars

\* an analyze call answered NotFound while both caches are populated
C17_Witness ==
    /\ request.op = "analyze"
    /\ response.status = 404
    /\ options_cache.populated
    /\ options_cache.value.curricula # <<>>
    /\ DOMAIN recommendation_cache # {}

\* C18: a request whose key is cached gets the cached text and calls no
\* provider; a request whose key is not cached and that gets a text from a
\* provider leaves that text in the cache under its key
C18_CacheThenProviders ==
    [][IsRecommend' =>
          /\ LastKey' \in DOMAIN recommendation_cache =>
                /\ response' = Recommendation(recommendation_cache[LastKey'])
                /\ queries' = <<>>
                /\ UNCHANGED recommendation_cache
          /\ (LastKey' \notin DOMAIN recommendation_cache /\ FromProvider') =>
                recommendation_cache' =
                    Insert(recommendation_cache, LastKey',
                           response'.body.recommendation)]_vars

\* a request answered from the cache
C18_Witness ==
    /\ FromRecommendationCache
    /\ recommendation_cache[LastKey] # ""

\* the two requests agree on both titles and both scores
Agree(a, b) ==
    /\ a.curriculum_title = b.curriculum_title
    /\ a.job_title = b.job_title
    /\ a.coverage_score = b.coverage_score
    /\ a.relevance_score = b.relevance_score

\* C19: when a request has just stored the only entry of the cache, the
\* next request is answered from that entry if and only if the two requests
\* agree on curriculum title, job title, coverage score and relevance score
C19_SharedIffAgree ==
    [][(/\ FromProvider
        /\ DOMAIN recommendation_cache = {LastKey}
        /\ IsRecommend')
          => (FromRecommendationCache' <=> Agree(request.args[1], request'.args[1]))]_vars

\* C20: every request but clear_recommendation_cache keeps every entry of
\* the cache; clear_recommendation_cache empties it and reports how many
\* entries it held; a request that follows it is not answered from the cache
C20_OnlyClearRemoves ==
    [][/\ request'.op # "clear_recommendation_cache" =>
              \A k \in DOMAIN recommendation_cache :
                  /\ k \in DOMAIN recommendation_cache'
                  /\ recommendation_cache'[k] = recommendation_cache[k]
       /\ request'.op = "clear_recommendation_cache" =>
              /\ recommendation_cache' = EmptyCache
              /\ response'.body =
                     [message |-> "Cleared "
                         \o ToString(Cardinality(DOMAIN recommendation_cache))
                         \o " cached recommendations"]
       /\ (request.op = "clear_recommendation_cache" /\ IsRecommend') =>
              ~FromRecommendationCache']_vars

\* a clear that removed MaxCached entries
C20_Witness ==
    /\ request.op = "clear_recommendation_cache"
    /\ response.body.message = "Cleared 2 cached recommendations"
    /\ recommendation_cache = EmptyCache

\* what a call to a provider may be recorded to have done
Outcomes == {"ok", "http_error", "timeout", "text", "empty", "blocked", "error"}

\* the records a call to the provider name may leave in queries
CallsOf(name) == {name \o ":" \o o : o \in Outcomes}

\* the call gave a text
Succeeded(call) ==
    \/ call = "groq:ok"
    \/ \E n \in 1..Len(GEMINI_MODELS) : call = GEMINI_MODELS[n] \o ":text"

\* the providers the environment holds a key for, in the order of the code
Configured(e) ==
    (IF e.GROQ_API_KEY THEN <<"groq">> ELSE <<>>)
        \o (IF e.GOOGLE_API_KEY THEN GEMINI_MODELS ELSE <<>>)

C22_ProvidersInOrder ==
    [][(IsRecommend' /\ LastKey' \notin DOMAIN recommendation_cache) =>
          LET configured == Configured(env)
              calls == queries'
          IN  /\ Len(calls) <= Len(configured)
              /\ \A i \in 1..Len(calls) : calls[i] \in CallsOf(configured[i])
              /\ \A i \in 1..(Len(calls) - 1) : ~Succeeded(calls[i])
              /\ Len(calls) < Len(configured) =>
                    /\ calls # <<>>
                    /\ Succeeded(calls[Len(calls)])
                    /\ response'.body.recommendation
                           \notin {"", ApiKeyMissing, AllModelsFailed}]_vars

\* C29: every text in the recommendation cache is non-empty and is neither
\* the API-key-missing message nor the all-failed placeholder
C29_StoredAreTexts ==
    \A key \in DOMAIN recommendation_cache :
        recommendation_cache[key] \notin {"", ApiKeyMissing, AllModelsFailed}

\* get_options has returned to thread t
HasReturned(t) ==
    \/ threads[t].op = "get_options" /\ threads[t].pc = "done"
    \/ threads[t].op = "warm_cache_background" /\ threads[t].pc = "report"

\* C23: whatever the interleaving of get_options calls, invalidations and the
\* warm-up thread, a get_options call that returns yields an options object
\* with both lists, never None
C23_ReturnsBuiltOptions ==
    \A t \in DOMAIN threads :
        HasReturned(t) =>
            /\ threads[t].result.populated
            /\ DOMAIN threads[t].result.value = {"curricula", "jobs"}

\* the warm-up thread has ended on an exception it caught
WarmUpFailed ==
    /\ WarmThread \in DOMAIN threads
    /\ threads[WarmThread].pc = "done"
    /\ threads[WarmThread].error # ""

\* C24: preload_caches returns while the warm-up thread has not yet run; the
\* warm-up thread never ends on an uncaught exception, whether the session,
\* get_options or the reading of its result fails; the step on which the
\* warm-up fails leaves the options cache alone, which is unpopulated after a
\* failed warm-up as long as no request has been served, and a get_options
\* request that then finds it unpopulated goes on to compute the options
C24_WarmUpInBackground ==
    [][/\ request'.op = "preload_caches" =>
              /\ response'.status = 200
              /\ request.op = "startup" =>
                    \A t \in DOMAIN threads' : threads'[t].pc = "session"
       /\ \A t \in DOMAIN threads' :
              threads'[t].op = "warm_cache_background" =>
                  threads'[t].pc # "raised"
       /\ (WarmUpFailed' /\ ~WarmUpFailed) => UNCHANGED options_cache
       /\ (WarmUpFailed' /\ DOMAIN threads' = {WarmThread}) =>
              ~options_cache'.populated
       /\ \A t \in RequestThreads \cap DOMAIN threads :
              (WarmUpFailed /\ ~options_cache.populated
                   /\ threads[t].pc = "test" /\ threads'[t].pc # "test") =>
                  threads'[t].pc = "read"]_vars

\* the warm-up failed on a database that did not answer, and a request
\* served afterwards has computed the options
C24_Witness ==
    /\ WarmUpFailed
    /\ threads[WarmThread].error = "OperationalError"
    /\ \E t \in RequestThreads \cap DOMAIN threads :
           /\ threads[t].pc = "done"
           /\ threads[t].result.populated
           /\ threads[t].result.value.curricula # <<>>

\* the orders in which a query may return the rows of the set S
Orderings(S) ==
    {f \in [1..Cardinality(S) -> S] :
        \A i \in 1..Cardinality(S) : \A k \in 1..Cardinality(S) :
            f[i] = f[k] => i = k}

C28_HitNeverRaises ==
    \A t \in DOMAIN threads :
        threads[t].op = "generate_recommendation" =>
            /\ threads[t].pc # "raised"
            /\ threads[t].error = ""

\* C25: the result of normalize_string is left unchanged by normalize_string,
\* holds only the characters a-z and 0-9, and is empty for the empty text
C25_NormalizeIdempotent ==
    request.op = "normalize_string" =>
        LET text == request.args[1]
            norm == response.body.text
        IN  /\ normalize_string(norm) = norm
            /\ normalize_string(normalize_string(text)) = normalize_string(text)
            /\ \A i \in 1..Len(norm) : InSeq(Lower, norm[i]) \/ InSeq(Digit, norm[i])
            /\ text = <<>> => norm = <<>>

\* a text with a capital and punctuation, normalized to something else
C25_Witness ==
    /\ request.op = "normalize_string"
    /\ request.args[1] = <<"A", "!", "7">>
    /\ response.body.text = <<"a", "7">>

\* C30: a get_options call that raises leaves the options cache as it was,
\* unpopulated, and a get_options call that follows it reads the store again
C30_FailureCachesNothing ==
    [][/\ (request'.op = "get_options" /\ response'.status = 500) =>
              /\ UNCHANGED options_cache
              /\ ~options_cache'.populated
       /\ (request.op = "get_options" /\ response.status = 500
              /\ request'.op = "get_options") =>
              queries' # <<>>]_vars

\* a get_options call has raised while the store holds something to list
C30_Witness ==
    /\ request.op = "get_options"
    /\ response.status = 500
    /\ ~options_cache.populated
    /\ DOMAIN curriculum # {}
    /\ skill_match_detail # {}

====
